---- MODULE Spec2Model ----
(***************************************************************************)
(* kitd: a single-child process supervisor (src/kitd.c).                   *)
(*                                                                         *)
(* The model follows main()'s event loop statement group by statement      *)
(* group.  The supervisor never blocks its handled signals (there is no    *)
(* sigprocmask call in src/kitd.c; ppoll is handed an empty mask), so      *)
(* signalHandler can run between any two steps of the loop.  Time is a     *)
(* monotonic integer clock; one unit is the initial restart interval.      *)
(***************************************************************************)
EXTENDS Integers, Sequences, FiniteSets, TLC

\* ---- configuration (program constants, in clock units) ----
Restart == 1
Cooloff == 1
Maximum == 4

\* ---- bounds of the model ----
MaxClock == 1
MaxRestarts == 3
MaxEvents == 1

\* ---- signals and pids ----
Handled == {"HUP", "INT", "TERM", "CHLD", "INFO", "USR1", "USR2"}
StrayPid == 1
FirstPid == 2

VARIABLES
    pc,         \* position of main() in the loop
    signals,    \* static volatile sig_atomic_t signals[NSIG]
    child,      \* pid_t child
    stop,       \* bool stop
    uptime,     \* struct timespec uptime (start instant, then run length)
    deadline,   \* struct timespec deadline
    interval,   \* struct timespec interval
    now,        \* struct timespec now (read at the top of each iteration)
    timeout,    \* struct timespec timeout (ppoll gets NULL while child != 0)
    pid,        \* pid_t pid returned by wait()
    status,     \* int status filled by wait()
    sig,        \* int sig chosen by the SIGINT/SIGTERM block
                \* (now, timeout, pid, status and sig are declared inside
                \* the loop body or one of its blocks: they hold 0, NoStatus
                \* or "" while out of scope)
    woken,      \* a handler ran while the supervisor was inside ppoll
    pollAt,     \* clock value at which ppoll was entered
    exitStatus, \* exit status of the supervisor (-1 while running)
    clock,      \* CLOCK_MONOTONIC
    procs,      \* processes forked by the supervisor, by pid
    nextPid,    \* pid the next fork returns
    stray,      \* a child inherited across exec (not forked by the loop)
    readable,   \* pipe read ends that hold unread bytes
    sent,       \* killpg calls issued by the last step
    logged,     \* syslog records the last step wrote about the supervisor itself
    streak,     \* reaps since interval was last reset to restart
    stopSent,   \* <<sig, pgid>> pairs forwarded by the SIGINT/SIGTERM block
    owed,       \* signals delivered once more, while their flag was pending
                \* and a child tracked, and not yet followed by a killpg of
                \* that signal
    nevents,    \* operator signals, child writes, stray exits, ppoll failures
    impl,       \* which pair of buffer functions runs: lbFill/lbFlush or
                \* lineFill/lineFlush
    lb,         \* struct LineBuffer: len and the bytes buf[0 .. len-1]
    pipe,       \* bytes written to the pipe and not yet read
    consumed,   \* bytes read from the pipe so far
    records,    \* syslog records written by the flushes, in order
    lbPc,       \* the next call on the buffer
    millis,     \* the text handed to parseInterval
    parsed      \* the struct timespec parseInterval filled

supervision == <<child, stop, uptime, deadline, interval>>
locals == <<now, timeout, pid, status, sig>>
ghosts == <<streak, stopSent, owed>>
buffering == <<impl, lb, pipe, consumed, records, lbPc>>
parsing == <<millis, parsed>>
vars == <<pc, signals, supervision, locals, woken, pollAt, exitStatus, clock,
          procs, nextPid, stray, readable, sent, logged, ghosts, nevents,
          buffering, parsing>>

NoStatus == [exited |-> TRUE, code |-> 0, sig |-> ""]
Exited(c) == [exited |-> TRUE, code |-> c, sig |-> ""]
Signaled(s) == [exited |-> FALSE, code |-> 0, sig |-> s]

Max(a, b) == IF a >= b THEN a ELSE b

Running == pc \notin {"done", "failed"}

\* One syslog record: priority, format, numeric argument, signal-name argument.
Log(pri, msg, num, sg) == [pri |-> pri, msg |-> msg, num |-> num, sig |-> sg]

\* One killpg call.
Kill(pgid, sg) == [pgid |-> pgid, sig |-> sg]

\* ---- signal delivery to the supervisor ----

\* signalHandler: signals[signal] = 1.
signalHandler(s) == [signals EXCEPT ![s] = 1]

\* A handler that runs while main() is inside ppoll makes ppoll fail with EINTR.
Interrupts == woken \/ pc = "poll"

\* ---- the child's process group ----

\* killpg(pgid, sig) as the processes see it: the signal reaches the group
\* only once the child has made the group (setpgid) and, before execvp, runs
\* the inherited signalHandler, which has no effect on the child.
killpg(ps, pgid, s) ==
    IF pgid \in DOMAIN ps /\ ps[pgid].st = "running"
    THEN [ps EXCEPT ![pgid].got = @ \cup {s}]
    ELSE ps

Zombies == {p \in DOMAIN procs : procs[p].st = "zombie"}
    \cup (IF stray = "zombie" THEN {StrayPid} ELSE {})
Living == {p \in DOMAIN procs : procs[p].st \in {"forked", "grouped", "running"}}
    \cup (IF stray = "running" THEN {StrayPid} ELSE {})
\* Children forked by the loop and not yet reaped.
Unreaped == {p \in DOMAIN procs : procs[p].st # "gone"}

\* ---- main(): the loop, one action per statement group ----

MainInit ==
    /\ pc = "top"
    /\ signals = [s \in Handled |-> 0]
    /\ child = 0
    /\ stop = FALSE
    /\ uptime = 0
    /\ deadline = 0
    /\ interval = Restart
    /\ now = 0
    /\ timeout = 0
    /\ pid = 0
    /\ status = NoStatus
    /\ sig = ""
    /\ woken = FALSE
    /\ pollAt = 0
    /\ exitStatus = -1
    /\ clock = 0
    /\ procs = << >>
    /\ nextPid = FirstPid
    /\ stray = "running"
    /\ readable = {}
    /\ sent = << >>
    /\ logged = << >>
    /\ streak = 0
    /\ stopSent = {}
    /\ owed = {}
    /\ nevents = 0

\* The buffers before any read and parseInterval before any call: the state
\* in which the model of the loop leaves them.
BufferInit ==
    /\ impl = "lb"
    /\ lb = [len |-> 0, buf |-> << >>]
    /\ pipe = << >>
    /\ consumed = << >>
    /\ records = << >>
    /\ lbPc = "fill"

ParseInit ==
    /\ millis = << >>
    /\ parsed = [called |-> FALSE, failed |-> FALSE, tv_sec |-> 0, tv_nsec |-> 0]

Init == MainInit /\ BufferInit /\ ParseInit

\* The model counts the events that do not belong to a child's life cycle.
Event == nevents < MaxEvents /\ nevents' = nevents + 1

\* What every step of main() that touches neither children nor pipes keeps.
Quiet == UNCHANGED <<woken, pollAt, exitStatus, clock, nextPid, stray,
                     readable, nevents, buffering, parsing>>

\* clock_gettime(CLOCK_MONOTONIC, &now) at the top of the loop body.
ReadClock ==
    /\ pc = "top"
    /\ now' = clock
    /\ pc' = "info"
    /\ sent' = << >> /\ logged' = << >>
    /\ UNCHANGED <<signals, supervision, timeout, pid, status,
                   sig, procs, ghosts>>
    /\ Quiet

\* if (signals[SIGINFO]) { ... syslog ... } up to the clearing of the flag.
Info ==
    /\ pc = "info"
    /\ IF signals["INFO"] = 1
       THEN /\ logged' = IF child # 0
                         THEN <<Log("INFO", "child up", now - uptime, "")>>
                         ELSE <<Log("INFO", "restarting in", deadline - now, "")>>
            /\ pc' = "info_clr"
       ELSE /\ logged' = << >>
            /\ pc' = "hup"
    /\ sent' = << >>
    /\ UNCHANGED <<signals, supervision, locals, procs, ghosts>>
    /\ Quiet

\* signals[SIGINFO] = 0.
InfoClear ==
    /\ pc = "info_clr"
    /\ signals' = [signals EXCEPT !["INFO"] = 0]
    /\ pc' = "hup"
    /\ sent' = << >> /\ logged' = << >>
    /\ UNCHANGED <<supervision, locals, procs, ghosts>>
    /\ Quiet

Forwarded == {"HUP", "USR1", "USR2"}
FwdPc == [HUP |-> "hup", USR1 |-> "usr1", USR2 |-> "usr2"]
ClrPc == [HUP |-> "hup_clr", USR1 |-> "usr1_clr", USR2 |-> "usr2_clr"]
AfterPc == [HUP |-> "usr1", USR1 |-> "usr2", USR2 |-> "term"]

\* A forwarding block without its if (child) test.
ForwardKillsUnguarded(c, s) == <<Kill(c, s)>>

\* The killpg calls of one forwarding block: if (child) killpg(child, s).
ForwardKills(c, s) == IF c # 0 THEN <<Kill(c, s)>> ELSE << >>

\* A forwarding block that also resets the backoff interval, as the SIGHUP
\* block of the other copy of main() in the repository does.
ForwardResets(s) ==
    /\ pc = FwdPc[s]
    /\ IF signals[s] = 1
       THEN /\ sent' = ForwardKills(child, s)
            /\ procs' = IF sent' # << >>
                        THEN killpg(procs, sent'[1].pgid, sent'[1].sig)
                        ELSE procs
            /\ interval' = Restart
            /\ pc' = ClrPc[s]
       ELSE /\ sent' = << >>
            /\ procs' = procs
            /\ interval' = interval
            /\ pc' = AfterPc[s]
    /\ owed' = owed \ {sent'[i].sig : i \in DOMAIN sent'}
    /\ logged' = << >>
    /\ UNCHANGED <<signals, child, stop, uptime, deadline, locals, streak,
                   stopSent>>
    /\ Quiet

\* if (signals[s]) { if (child) killpg(child, s); for s in HUP, USR1, USR2.
Forward(s) ==
    /\ pc = FwdPc[s]
    /\ IF signals[s] = 1
       THEN /\ sent' = ForwardKills(child, s)
            /\ procs' = IF sent' # << >>
                        THEN killpg(procs, sent'[1].pgid, sent'[1].sig)
                        ELSE procs
            /\ pc' = ClrPc[s]
       ELSE /\ sent' = << >>
            /\ procs' = procs
            /\ pc' = AfterPc[s]
    /\ owed' = owed \ {sent'[i].sig : i \in DOMAIN sent'}
    /\ logged' = << >>
    /\ UNCHANGED <<signals, supervision, locals, streak, stopSent>>
    /\ Quiet

\* signals[s] = 0; } for s in HUP, USR1, USR2.
ForwardClear(s) ==
    /\ pc = ClrPc[s]
    /\ signals' = [signals EXCEPT ![s] = 0]
    /\ pc' = AfterPc[s]
    /\ sent' = << >> /\ logged' = << >>
    /\ UNCHANGED <<supervision, locals, procs, ghosts>>
    /\ Quiet

\* if (signals[SIGINT] || signals[SIGTERM]) { stop = true;
StopTest ==
    /\ pc = "term"
    /\ IF signals["INT"] = 1 \/ signals["TERM"] = 1
       THEN stop' = TRUE /\ pc' = "term_sig"
       ELSE stop' = stop /\ pc' = "chld"
    /\ sent' = << >> /\ logged' = << >>
    /\ UNCHANGED <<signals, child, uptime, deadline, interval, locals, procs,
                   ghosts>>
    /\ Quiet

\* A shutdown signal sent with kill(child, sig) semantics of pid 0: to the
\* supervisor's own process group instead of the child's.
StopKillsOwnGroup(c, s) == <<Kill(0, s)>>

\* killpg(child, sig) of the SIGINT/SIGTERM block.
StopKills(c, s) == <<Kill(c, s)>>

\* int sig = (signals[SIGINT] ? SIGINT : SIGTERM);
\* if (child) killpg(child, sig); else break;
StopForward ==
    /\ pc = "term_sig"
    /\ LET chosen == IF signals["INT"] = 1 THEN "INT" ELSE "TERM" IN
       IF child # 0
       THEN /\ sig' = chosen
            /\ sent' = StopKills(child, chosen)
            /\ procs' = killpg(procs, sent'[1].pgid, sent'[1].sig)
            /\ stopSent' = stopSent \cup
                 {<<sent'[i].sig, sent'[i].pgid>> : i \in DOMAIN sent'}
            /\ now' = now
            /\ pc' = "term_clr"
       ELSE /\ sig' = ""
            /\ sent' = << >>
            /\ procs' = procs
            /\ stopSent' = stopSent
            /\ now' = 0
            /\ pc' = "exit"
    /\ owed' = owed \ {sent'[i].sig : i \in DOMAIN sent'}
    /\ logged' = << >>
    /\ UNCHANGED <<signals, supervision, timeout, pid, status,
                   streak>>
    /\ Quiet

\* signals[sig] = 0; }
StopClear ==
    /\ pc = "term_clr"
    /\ signals' = [signals EXCEPT ![sig] = 0]
    /\ sig' = ""
    /\ pc' = "chld"
    /\ sent' = << >> /\ logged' = << >>
    /\ UNCHANGED <<supervision, now, timeout, pid, status,
                   procs, ghosts>>
    /\ Quiet

\* if (signals[SIGCHLD]) {
ChldTest ==
    /\ pc = "chld"
    /\ pc' = IF signals["CHLD"] = 1 THEN "wait" ELSE "poll_enter"
    /\ sent' = << >> /\ logged' = << >>
    /\ UNCHANGED <<signals, supervision, locals, procs, ghosts>>
    /\ Quiet

\* pid_t pid = wait(&status): reaps one terminated child, fails with ECHILD
\* when there is no child at all, and blocks otherwise.
Wait ==
    /\ pc = "wait"
    /\ UNCHANGED <<nevents, buffering, parsing>>
    /\ \/ \E z \in Zombies :
            /\ pid' = z
            /\ IF z = StrayPid
               THEN /\ status' = Exited(0)
                    /\ stray' = "none"
                    /\ procs' = procs
               ELSE /\ status' = procs[z].status
                    /\ stray' = stray
                    /\ procs' = [procs EXCEPT ![z].st = "gone",
                                              ![z].status = NoStatus,
                                              ![z].got = {}]
       \/ /\ Zombies = {} /\ Living = {}
          /\ pid' = -1
          /\ UNCHANGED <<status, stray, procs>>
    /\ pc' = "reap"
    /\ sent' = << >> /\ logged' = << >>
    /\ UNCHANGED <<signals, supervision, now, timeout, sig,
                   ghosts, woken, pollAt, exitStatus, clock, nextPid, readable>>

\* A reap that takes whatever wait() returned for the tracked child.
TrackedAny(p, c) == TRUE

\* if (pid != child) ... continue;
Tracked(p, c) == p = c

\* An exit status test that takes the shell's "not executable" code for the
\* exec failure sentinel.
ExitStopsOn126(st) == st.exited /\ st.code = 126

\* if (exit == 127) stop = true;
ExitStops(st) == st.exited /\ st.code = 127

\* The notices that lines 219-228 write for a wait status.
ExitNotices(st) ==
    IF st.exited
    THEN IF st.code # 0
         THEN <<Log("NOTICE", "child exited", st.code, "")>>
         ELSE << >>
    ELSE IF st.sig # "TERM"
         THEN <<Log("NOTICE", "child got signal", 0, st.sig)>>
         ELSE << >>

\* The cooloff comparison with > in place of >=.
DelayStrict(up, iv) == IF up > Cooloff THEN Restart ELSE iv

\* if (timespeccmp(&uptime, &cooloff, >=)) interval = restart;
Delay(up, iv) == IF up >= Cooloff THEN Restart ELSE iv

\* timespecadd(&now, &interval, &deadline);
Deadline(n, iv) == n + iv

\* A backoff step that forgets to double.
NotDoubled(iv) == iv

\* timespecadd(&interval, &interval, &interval);
Doubled(iv) == iv + iv

\* signals[SIGCHLD] = 0; and the rest of the SIGCHLD block.
Reap ==
    /\ pc = "reap"
    /\ signals' = [signals EXCEPT !["CHLD"] = 0]
    /\ sent' = << >>
    /\ IF pid < 0
       THEN /\ logged' = <<Log("ERR", "wait", 0, "")>>
            /\ pc' = "top"
            /\ now' = 0
            /\ UNCHANGED <<supervision, ghosts>>
       ELSE IF ~Tracked(pid, child)
       THEN /\ logged' = <<Log("NOTICE", "unknown child", pid, "")>>
            /\ pc' = "top"
            /\ now' = 0
            /\ UNCHANGED <<supervision, ghosts>>
       ELSE /\ child' = 0
            /\ stop' = (stop \/ ExitStops(status))
            /\ IF stop'
               THEN /\ logged' = ExitNotices(status)
                    /\ pc' = "exit"
                    /\ now' = 0
                    /\ UNCHANGED <<uptime, deadline, interval, streak,
                                   stopSent>>
               ELSE /\ uptime' = now - uptime
                    /\ logged' = ExitNotices(status) \o
                         <<Log("INFO", "restarting in",
                               Delay(uptime', interval), "")>>
                    /\ deadline' = Deadline(now, Delay(uptime', interval))
                    /\ interval' = Doubled(Delay(uptime', interval))
                    /\ streak' = IF uptime' >= Cooloff THEN 1 ELSE streak + 1
                    /\ stopSent' = stopSent
                    /\ pc' = "poll_enter"
                    /\ now' = now
            /\ owed' = {}
    /\ pid' = 0 /\ status' = NoStatus
    /\ UNCHANGED <<timeout, sig, procs>>
    /\ Quiet

\* The timeout main() computes when there is no child (lines 241-247).
Timeout(dl, n) == IF dl < n THEN 0 ELSE dl - n

\* struct timespec timeout; if (!child) {...}; entry into ppoll.
PollEnter ==
    /\ pc = "poll_enter"
    /\ UNCHANGED <<nevents, buffering, parsing>>
    /\ timeout' = IF child = 0 THEN Timeout(deadline, now) ELSE timeout
    /\ woken' = FALSE
    /\ pollAt' = clock
    /\ pc' = "poll"
    /\ sent' = << >> /\ logged' = << >>
    /\ UNCHANGED <<signals, supervision, now, pid, status, sig,
                   procs, ghosts, exitStatus, clock, nextPid, stray, readable>>

\* if (nfds > 0 && fds[i].revents) { lbFill; lbFlush; } for both pipes: what
\* the pipes can hold afterwards.  A read takes what fits the buffer, so a
\* pipe that was read may stay readable.
Relay(nfds, revents) ==
    LET read == IF nfds > 0 THEN revents ELSE {}
    IN  {(readable \ read) \cup rest : rest \in SUBSET (readable \cap read)}

\* What every return of ppoll that reaches line 254 does.
Returned ==
    /\ woken' = FALSE /\ pollAt' = 0
    /\ pc' = "spawn"
    /\ sent' = << >> /\ logged' = << >>
    /\ UNCHANGED <<signals, supervision, now, timeout, pid, status, sig,
                   procs, ghosts, exitStatus, nextPid, stray, nevents,
                   buffering, parsing>>

\* ppoll returns the number of readable pipes; both are relayed.
PollReady ==
    /\ pc = "poll"
    /\ readable # {}
    /\ readable' \in Relay(Cardinality(readable), readable)
    /\ clock' = clock
    /\ Returned

\* ppoll fails with EINTR: a handler ran during the wait.
PollInterrupted ==
    /\ pc = "poll"
    /\ woken
    /\ readable' \in Relay(-1, {})
    /\ clock' = clock
    /\ Returned

\* ppoll returns 0 once the timeout has run out (only without a child:
\* with a child the timeout argument is NULL).
PollTimeout ==
    /\ pc = "poll"
    /\ child = 0
    /\ ~woken /\ readable = {}
    /\ clock' = Max(clock, pollAt + timeout)
    /\ readable' \in Relay(0, {})
    /\ Returned

\* if (nfds < 0 && errno != EINTR) { syslog(LOG_ERR, "ppoll: %m"); continue; }
PollFail ==
    /\ pc = "poll"
    /\ Event
    /\ logged' = <<Log("ERR", "ppoll", 0, "")>>
    /\ pc' = "top"
    /\ now' = 0 /\ timeout' = 0
    /\ woken' = FALSE /\ pollAt' = 0
    /\ sent' = << >>
    /\ UNCHANGED <<signals, supervision, pid, status, sig, procs, ghosts,
                   exitStatus, clock, nextPid, stray, readable, buffering,
                   parsing>>

\* A spawn step without its if (!child) test.
SpawnUnguarded(c) == TRUE

\* if (!child)
SpawnGuard(c) == c = 0

\* child = fork(); parent side: clock_gettime(CLOCK_MONOTONIC, &uptime).
Spawn ==
    /\ pc = "spawn"
    /\ UNCHANGED <<nevents, buffering, parsing>>
    /\ IF SpawnGuard(child)
       THEN /\ child' = nextPid
            /\ nextPid' = nextPid + 1
            /\ procs' = procs @@
                 (nextPid :> [st |-> "forked", status |-> NoStatus, got |-> {}])
            /\ uptime' = clock
       ELSE UNCHANGED <<child, nextPid, procs, uptime>>
    /\ pc' = "top"
    /\ now' = 0 /\ timeout' = 0
    /\ sent' = << >> /\ logged' = << >>
    /\ UNCHANGED <<signals, stop, deadline, interval, pid, status,
                   sig, ghosts, woken, pollAt, exitStatus, clock, stray,
                   readable>>

\* if (child < 0) { syslog(LOG_ERR, "fork: %m"); return 1; }
ForkFail ==
    /\ pc = "spawn"
    /\ UNCHANGED <<nevents, buffering, parsing>>
    /\ SpawnGuard(child)
    /\ child' = -1
    /\ logged' = <<Log("ERR", "fork", 0, "")>>
    /\ exitStatus' = 1
    /\ pc' = "failed"
    /\ now' = 0 /\ timeout' = 0
    /\ sent' = << >>
    /\ UNCHANGED <<signals, stop, uptime, deadline, interval, pid,
                   status, sig, procs,
                   ghosts, woken, pollAt, clock, nextPid, stray, readable>>

\* After the loop: lbFill and lbFlush on both buffers, then main() returns 0.
ExitDrain ==
    /\ pc = "exit"
    /\ UNCHANGED <<nevents, buffering, parsing>>
    /\ \E rest \in SUBSET readable : readable' = rest
    /\ exitStatus' = 0
    /\ pc' = "done"
    /\ sent' = << >> /\ logged' = << >>
    /\ UNCHANGED <<signals, supervision, locals, procs, ghosts, woken, pollAt,
                   clock, nextPid, stray>>

Supervisor ==
    \/ ReadClock
    \/ Info
    \/ InfoClear
    \/ \E s \in Forwarded : Forward(s)
    \/ \E s \in Forwarded : ForwardClear(s)
    \/ StopTest
    \/ StopForward
    \/ StopClear
    \/ ChldTest
    \/ Wait
    \/ Reap
    \/ PollEnter
    \/ PollReady
    \/ PollInterrupted
    \/ PollTimeout
    \/ PollFail
    \/ Spawn
    \/ ForkFail
    \/ ExitDrain

\* ---- the environment: operator, clock, children ----

\* What an environment step leaves of the supervisor alone.
Aside == UNCHANGED <<pc, supervision, locals, pollAt, exitStatus, nextPid,
                     ghosts, buffering, parsing>>

\* A terminated child becomes a zombie and the kernel raises SIGCHLD in the
\* supervisor, whose handler runs at once (the signal is never blocked).
Die(p, st) == [procs EXCEPT ![p].st = "zombie", ![p].status = st, ![p].got = {}]

\* The signals main() passes on to the child's process group.
Relayed == Forwarded \cup {"INT", "TERM"}

\* An operator (or any process allowed to) sends the supervisor a signal.
OperatorSignal(s) ==
    /\ Running
    /\ Event
    /\ signals' = signalHandler(s)
    /\ woken' = Interrupts
    /\ sent' = << >> /\ logged' = << >>
    /\ UNCHANGED <<clock, procs, stray, readable>>
    /\ Aside

\* A signal is sent again while its flag is still pending: the handler
\* stores 1 over 1.
Redelivery(s) ==
    /\ Running
    /\ signals[s] = 1
    /\ signals' = signalHandler(s)
    /\ woken' = Interrupts
    /\ owed' = IF s \in Relayed /\ child > 0 THEN owed \cup {s} ELSE owed
    /\ sent' = << >> /\ logged' = << >>
    /\ UNCHANGED <<clock, procs, stray, readable, nevents>>
    /\ UNCHANGED <<pc, supervision, locals, pollAt, exitStatus, nextPid,
                   streak, stopSent, buffering, parsing>>

\* Time passes while the supervisor is blocked in ppoll or wait; the
\* statements in between take no time at the clock's granularity.
Tick ==
    /\ UNCHANGED nevents
    /\ pc \in {"poll", "wait"}
    /\ clock < MaxClock
    /\ clock' = clock + 1
    /\ sent' = << >> /\ logged' = << >>
    /\ UNCHANGED <<signals, woken, procs, stray, readable>>
    /\ Aside

\* Child side of fork: setpgid(0, 0).
ChildSetpgid(p) ==
    /\ UNCHANGED nevents
    /\ Running
    /\ procs[p].st = "forked"
    /\ procs' = [procs EXCEPT ![p].st = "grouped"]
    /\ sent' = << >> /\ logged' = << >>
    /\ UNCHANGED <<signals, woken, clock, stray, readable>>
    /\ Aside

\* Child side of fork: dup2, dup2, execvp succeeds.
ChildExec(p) ==
    /\ UNCHANGED nevents
    /\ Running
    /\ procs[p].st = "grouped"
    /\ procs' = [procs EXCEPT ![p].st = "running"]
    /\ sent' = << >> /\ logged' = << >>
    /\ UNCHANGED <<signals, woken, clock, stray, readable>>
    /\ Aside

\* Child side of fork: execvp fails, err(127, ...) writes to the stderr pipe.
ChildExecFail(p) ==
    /\ UNCHANGED nevents
    /\ Running
    /\ procs[p].st = "grouped"
    /\ procs' = Die(p, Exited(127))
    /\ readable' = readable \cup {"stderr"}
    /\ signals' = signalHandler("CHLD")
    /\ woken' = Interrupts
    /\ sent' = << >> /\ logged' = << >>
    /\ UNCHANGED <<clock, stray>>
    /\ Aside

\* The commands that end without a shutdown: the first MaxRestarts ones.
Mortal(p) == p < FirstPid + MaxRestarts

\* Ways the command ends that the supervisor did not cause.
OwnStatuses == {Exited(0), Exited(1), Exited(127), Signaled("KILL"),
                Signaled("TERM")}

\* The command exits or is killed from outside.
ChildExit(p, st) ==
    /\ UNCHANGED nevents
    /\ Running
    /\ procs[p].st = "running"
    /\ Mortal(p)
    /\ procs' = Die(p, st)
    /\ signals' = signalHandler("CHLD")
    /\ woken' = Interrupts
    /\ sent' = << >> /\ logged' = << >>
    /\ UNCHANGED <<clock, stray, readable>>
    /\ Aside

\* The command dies of a signal its process group received: always possible
\* for the signal of a shutdown, for a mortal command for the others.
ChildKilled(p, s) ==
    /\ UNCHANGED nevents
    /\ Running
    /\ procs[p].st = "running"
    /\ s \in procs[p].got
    /\ s \in Forwarded => Mortal(p)
    /\ procs' = Die(p, Signaled(s))
    /\ signals' = signalHandler("CHLD")
    /\ woken' = Interrupts
    /\ sent' = << >> /\ logged' = << >>
    /\ UNCHANGED <<clock, stray, readable>>
    /\ Aside

\* The command catches or ignores a signal its process group received.
ChildCatches(p, s) ==
    /\ UNCHANGED nevents
    /\ Running
    /\ procs[p].st = "running"
    /\ s \in procs[p].got
    /\ procs' = [procs EXCEPT ![p].got = @ \ {s}]
    /\ sent' = << >> /\ logged' = << >>
    /\ UNCHANGED <<signals, woken, clock, stray, readable>>
    /\ Aside

\* The command writes to its standard output or standard error.
ChildWrite(p, fd) ==
    /\ Event
    /\ Running
    /\ procs[p].st = "running"
    /\ readable' = readable \cup {fd}
    /\ sent' = << >> /\ logged' = << >>
    /\ UNCHANGED <<signals, woken, clock, procs, stray>>
    /\ Aside

\* The inherited child terminates.
StrayExit ==
    /\ Event
    /\ Running
    /\ stray = "running"
    /\ stray' = "zombie"
    /\ signals' = signalHandler("CHLD")
    /\ woken' = Interrupts
    /\ sent' = << >> /\ logged' = << >>
    /\ UNCHANGED <<clock, procs, readable>>
    /\ Aside

Obedient ==
    \/ \E s \in Handled : OperatorSignal(s)
    \/ Tick
    \/ \E p \in DOMAIN procs : ChildSetpgid(p)
    \/ \E p \in DOMAIN procs : ChildExec(p)
    \/ \E p \in DOMAIN procs : ChildExecFail(p)
    \/ \E p \in DOMAIN procs : \E st \in OwnStatuses : ChildExit(p, st)
    \/ \E p \in DOMAIN procs : \E s \in Forwarded \cup {"INT", "TERM"} :
          ChildKilled(p, s)
    \/ \E p \in DOMAIN procs : \E s \in Forwarded : ChildCatches(p, s)
    \/ \E p \in DOMAIN procs : \E fd \in {"stdout", "stderr"} : ChildWrite(p, fd)
    \/ StrayExit

\* A command that catches or ignores the signal of a shutdown.
Defiant == \E p \in DOMAIN procs : \E s \in {"INT", "TERM"} : ChildCatches(p, s)

Environment == Obedient \/ Defiant

Next == Supervisor \/ Environment

Spec == Init /\ [][Next]_vars

\* The same program with operators that repeat a signal before the loop has
\* cleared its flag.
DeliveryNext == Next \/ \E s \in Relayed : Redelivery(s)

DeliverySpec == Init /\ [][DeliveryNext]_vars

\* ---- liveness: commands that die of the signal of a shutdown ----

\* The steps main() takes by itself: every step but the failures of ppoll
\* and fork, which need not happen.
Progress ==
    \/ ReadClock
    \/ Info
    \/ InfoClear
    \/ \E s \in Forwarded : Forward(s)
    \/ \E s \in Forwarded : ForwardClear(s)
    \/ StopTest
    \/ StopForward
    \/ StopClear
    \/ ChldTest
    \/ Wait
    \/ Reap
    \/ PollEnter
    \/ PollReady
    \/ PollInterrupted
    \/ PollTimeout
    \/ Spawn
    \/ ExitDrain

Shutdown == \E p \in DOMAIN procs : \E s \in {"INT", "TERM"} : ChildKilled(p, s)

LiveNext == Supervisor \/ Obedient

\* The supervisor keeps running while it has a step to take, and a command
\* that received SIGINT or SIGTERM dies of it.
LiveSpec ==
    /\ Init
    /\ [][LiveNext]_vars
    /\ WF_vars(Progress)
    /\ WF_vars(Shutdown)

\* ---- struct LineBuffer: lbFill and lbFlush (and the older lineFill and
\* lineFlush), run as main() runs them: a fill, then a flush ----

\* sizeof(lb->buf), scaled down; NUL and '\n'; the width of size_t, scaled.
BufSize == 4
NUL == 0
NL == 10
SizeMod == 256

\* Total number of bytes the child writes.
MaxStream == 5

Bytes == {NUL, NL, 97, 98}

\* Every variable of the loop, which the buffer functions do not touch.
loop == <<pc, signals, supervision, locals, woken, pollAt, exitStatus, clock,
          procs, nextPid, stray, readable, sent, logged, ghosts, nevents>>

Min(a, b) == IF a <= b THEN a ELSE b

\* The first index i >= from with s[i] = b, or 0.
RECURSIVE IndexOf(_, _, _)
IndexOf(s, b, from) ==
    IF from > Len(s) THEN 0
    ELSE IF s[from] = b THEN from
    ELSE IndexOf(s, b, from + 1)

\* The C string that starts at buf[ptr] (1-based) when buf[len] = '\0'.
CString(buf, ptr) ==
    LET z == IndexOf(buf, NUL, ptr)
    IN  SubSeq(buf, ptr, IF z = 0 THEN Len(buf) ELSE z - 1)

\* strchr(ptr, '\n'): the index of the first newline of that C string, or 0.
strchr(buf, ptr) ==
    LET nl == IndexOf(buf, NL, ptr)
        z == IndexOf(buf, NUL, ptr)
    IN  IF nl # 0 /\ (z = 0 \/ nl < z) THEN nl ELSE 0

\* What read(fd, &buf[len], cap) can return on the non-blocking pipe: n > 0
\* bytes, 0 when cap is 0, -1 with EAGAIN when the pipe is empty, and -1 with
\* another errno at any time.
ReadReturns(cap) ==
    {[n |-> k, errno |-> ""] : k \in 1..Min(cap, Len(pipe))}
    \cup (IF cap = 0 THEN {[n |-> 0, errno |-> ""]} ELSE {})
    \cup (IF pipe = << >> /\ cap > 0 THEN {[n |-> -1, errno |-> "EAGAIN"]} ELSE {})
    \cup {[n |-> -1, errno |-> "EIO"]}

\* lbFill after read returned r with the bytes data: if (len > 0) lb->len += len.
lbFill(b, r, data) ==
    IF r.n > 0
    THEN [len |-> b.len + r.n, buf |-> b.buf \o data]
    ELSE b

\* lineFill: it returns early on an error other than EAGAIN and otherwise
\* runs line->len += len, also when len is -1 (size_t arithmetic).
lineFill(b, r, data) ==
    IF r.n < 0 /\ r.errno # "EAGAIN"
    THEN b
    ELSE LET n == (b.len + r.n) % SizeMod
         IN  [len |-> n,
              buf |-> IF r.n >= 0 THEN b.buf \o data
                      ELSE SubSeq(b.buf, 1, Min(n, Len(b.buf)))]

\* assert(lb->len < sizeof(lb->buf)).
Asserted(b) == b.len < BufSize

\* The for loop of lbFlush from ptr on: the records it writes and the ptr it
\* ends with.
RECURSIVE Lines(_, _, _)
Lines(buf, ptr, out) ==
    LET nl == strchr(buf, ptr)
    IN  IF nl = 0 THEN [out |-> out, ptr |-> ptr]
        ELSE Lines(buf, nl + 1, Append(out, SubSeq(buf, ptr, nl - 1)))

\* lbFlush (lineFlush has the same body) on a buffer that passed the assert:
\* the buffer it leaves and the records it writes.
lbFlush(b) ==
    IF b.len = BufSize - 1
    THEN [lb |-> [len |-> 0, buf |-> << >>], out |-> <<CString(b.buf, 1)>>]
    ELSE LET l == Lines(b.buf, 1, << >>)
         IN  [lb |-> [len |-> b.len - (l.ptr - 1),
                      buf |-> SubSeq(b.buf, l.ptr, Len(b.buf))],
              out |-> l.out]

\* The child writes one byte to the pipe.
ChildWrites(b) ==
    /\ lbPc \in {"fill", "flush"}
    /\ Len(consumed) + Len(pipe) < MaxStream
    /\ pipe' = Append(pipe, b)
    /\ UNCHANGED <<impl, lb, consumed, records, lbPc, loop, parsing>>

\* lbFill(&buffer, fd) or lineFill(&buffer, fd), in the loop or after it.
Fill ==
    /\ lbPc \in {"fill", "last_fill"}
    /\ \E r \in ReadReturns(BufSize - 1 - lb.len) :
          LET k == IF r.n > 0 THEN r.n ELSE 0
              data == SubSeq(pipe, 1, k)
          IN  /\ lb' = IF impl = "lb" THEN lbFill(lb, r, data)
                       ELSE lineFill(lb, r, data)
              /\ pipe' = SubSeq(pipe, k + 1, Len(pipe))
              /\ consumed' = consumed \o data
    /\ lbPc' = IF lbPc = "fill" THEN "flush" ELSE "last_flush"
    /\ UNCHANGED <<impl, records, loop, parsing>>

\* lbFlush(&buffer, priority) or lineFlush(&buffer, priority).
Flush ==
    /\ lbPc \in {"flush", "last_flush"}
    /\ Asserted(lb)
    /\ lb' = lbFlush(lb).lb
    /\ records' = records \o lbFlush(lb).out
    /\ lbPc' = IF lbPc = "flush" THEN "fill" ELSE "exited"
    /\ UNCHANGED <<impl, pipe, consumed, loop, parsing>>

\* The assertion at the top of the flush fails: abort().
FlushAborts ==
    /\ lbPc \in {"flush", "last_flush"}
    /\ ~Asserted(lb)
    /\ lbPc' = "aborted"
    /\ UNCHANGED <<impl, lb, pipe, consumed, records, loop, parsing>>

\* main() leaves the loop: the calls after it are the last fill and flush.
\* Only src/kitd.c has them.
LeaveLoop ==
    /\ lbPc = "fill"
    /\ impl = "lb"
    /\ lbPc' = "last_fill"
    /\ UNCHANGED <<impl, lb, pipe, consumed, records, loop, parsing>>

LbInit ==
    /\ MainInit
    /\ ParseInit
    /\ impl \in {"lb", "line"}
    /\ lb = [len |-> 0, buf |-> << >>]
    /\ pipe = << >>
    /\ consumed = << >>
    /\ records = << >>
    /\ lbPc = "fill"

LbNext ==
    \/ \E b \in Bytes : ChildWrites(b)
    \/ Fill
    \/ Flush
    \/ FlushAborts
    \/ LeaveLoop

LbSpec == LbInit /\ [][LbNext]_vars

\* ====================================================================
\* Claims
\* ====================================================================

LoopLeft == pc \in {"exit", "done"}

\* The record Reap wrote last: the "restarting in" announcement, when the
\* state is the one right after a reap that scheduled a restart.
Announced == pc = "poll_enter" /\ logged # << >>
Announcement == logged[Len(logged)]

\* C1: at most one child forked by the loop is unreaped at any time, and an
\* unreaped child is the tracked one: fork fills an empty slot only and the
\* slot is emptied only by reaping the tracked pid.
C1_AtMostOneChild ==
    /\ Cardinality(Unreaped) <= 1
    /\ Unreaped \subseteq {child}

\* A second child runs after the first one was reaped.
C1_Witness ==
    /\ nextPid >= FirstPid + 2
    /\ child = nextPid - 1
    /\ Unreaped = {child}

\* A tracked child that has exited, in a way that asks for a restart, and
\* has not been reaped, while no shutdown was asked.
Restartable ==
    /\ ~stop
    /\ child \in DOMAIN procs
    /\ procs[child].st = "zombie"
    /\ ~ExitStops(procs[child].status)

\* The tracked child is a process that has not terminated.
ChildAlive ==
    /\ child \in DOMAIN procs
    /\ procs[child].st \in {"forked", "grouped", "running"}

\* C2: whenever the tracked child exits while stop is false and its exit
\* code is not 127, a new child is eventually spawned (unless a shutdown is
\* asked meanwhile or fork fails), with no further signal or pipe output.
C2_ExitLeadsToSpawn ==
    Restartable ~> (ChildAlive \/ stop \/ pc = "failed")

\* C3: in a run of exits since interval was last restart, the k-th reap
\* announces restart * 2^(k-1) (up to maximum), sets deadline to the reap
\* instant plus that delay, and leaves the doubled value for the next cycle.
C3_PreDoublingDelay ==
    /\ interval = Restart * 2^streak
    /\ (Announced /\ Restart * 2^(streak - 1) <= Maximum) =>
          /\ Announcement = Log("INFO", "restarting in",
                                Restart * 2^(streak - 1), "")
          /\ deadline = now + Restart * 2^(streak - 1)
          /\ interval = 2 * Restart * 2^(streak - 1)

\* The third reap in a row of a short-lived child has just announced 4.
C3_Witness ==
    /\ Announced
    /\ streak = 3
    /\ Announcement.num = 4 * Restart
    /\ uptime < Cooloff

\* C4: the backoff saturates at maximum: the current interval never exceeds
\* maximum and no announced delay or deadline offset does.
C4_SaturatesAtMaximum ==
    /\ interval <= Maximum
    /\ Announced => /\ Announcement.num <= Maximum
                    /\ deadline - now <= Maximum

\* C5: a reap of a child that ran for at least cooloff (uptime is the run
\* length Reap computed, reap instant minus spawn instant) announces and
\* applies restart, and leaves 2 * restart for the following cycle.
C5_CooloffResets ==
    (Announced /\ uptime >= Cooloff) =>
        /\ Announcement = Log("INFO", "restarting in", Restart, "")
        /\ deadline = now + Restart
        /\ interval = 2 * Restart

\* A child that is not the first ran for exactly cooloff: the interval held
\* before its reap was at least 2 * restart.
C5_Witness ==
    /\ Announced
    /\ uptime = Cooloff
    /\ nextPid >= FirstPid + 2
    /\ interval = 2 * Restart

\* C6, as a state predicate: a stopped supervisor without a child is leaving
\* or has left the loop; the loop is left without a tracked child; what the
\* SIGINT/SIGTERM block forwarded went to the tracked child's group, and
\* that child has been reaped when the loop is left.
C6_StopState ==
    /\ (stop /\ child = 0) => pc \in {"term_sig", "exit", "done"}
    /\ LoopLeft => (stop /\ child = 0 /\ Unreaped = {})
    /\ \A e \in stopSent :
          /\ stop
          /\ e[1] \in {"INT", "TERM"}
          /\ child # 0 => e[2] = child
          /\ LoopLeft => (e[2] \in DOMAIN procs /\ procs[e[2]].st = "gone")

\* C6, as a step: stop is never reset, no fork happens once it is set, and
\* the loop is left either by the SIGINT/SIGTERM block without a child or by
\* the reap of the tracked child, which after a drained SIGINT or SIGTERM is
\* the child whose group got that signal.
C6_StopStep ==
    /\ stop => (stop' /\ nextPid' = nextPid)
    /\ (pc # "exit" /\ pc' = "exit") =>
          \/ pc = "term_sig" /\ child = 0
          \/ /\ pc = "reap" /\ pid = child /\ child' = 0
             /\ stop => \E e \in stopSent : e[2] = pid

\* C6: once SIGINT or SIGTERM is drained, stop stays true and no child is
\* spawned; the loop is left only without a tracked child, at once when
\* there was none, otherwise at the reap of the child the signal went to.
C6_StopIsFinal == []C6_StopState /\ [][C6_StopStep]_vars

\* The supervisor has exited after forwarding SIGTERM to a child's group.
C6_Witness ==
    /\ pc = "done"
    /\ \E e \in stopSent : e[1] = "TERM"

\* SIGINT or SIGTERM is pending in the supervisor and the command runs.
ShutdownAsked ==
    /\ signals["INT"] = 1 \/ signals["TERM"] = 1
    /\ child \in DOMAIN procs
    /\ procs[child].st = "running"

\* C7: if SIGINT or SIGTERM is delivered while a child is alive, and the
\* child dies of that signal when its group receives it, the supervisor
\* eventually exits (or has failed to fork), wherever in the loop the signal
\* was delivered.
C7_ShutdownCompletes == ShutdownAsked ~> (pc \in {"done", "failed"})

\* C8, as a step: reaping the tracked child with exit code 127 sets stop,
\* writes the one notice, leaves the loop, and runs no backoff step.
C8_ExecFailureStep ==
    (pc = "reap" /\ pc' # "reap" /\ pid = child /\ status = Exited(127)) =>
        /\ stop'
        /\ logged' = <<Log("NOTICE", "child exited", 127, "")>>
        /\ pc' = "exit"
        /\ UNCHANGED <<interval, deadline>>
        /\ child' = 0

\* C8, after the loop: nothing is spawned or scheduled any more and the
\* supervisor exits with status 0.
C8_AfterLoopStep ==
    LoopLeft =>
        /\ pc' \in {"exit", "done"}
        /\ UNCHANGED <<child, nextPid, interval, deadline>>
        /\ pc' = "done" => exitStatus' = 0

\* C8: exit code 127 of the tracked child stops the supervisor in the same
\* iteration, with one notice, no backoff step, no further spawn, status 0.
C8_ExecFailureStops == [][C8_ExecFailureStep /\ C8_AfterLoopStep]_vars

\* The tracked child was just reaped with exit code 127.
C8_Witness ==
    /\ pc = "exit"
    /\ stop
    /\ logged = <<Log("NOTICE", "child exited", 127, "")>>

\* C9, as a state predicate: every killpg of the last step was addressed to
\* the process group of the tracked child, which exists.
C9_Addressed ==
    \A i \in DOMAIN sent : sent[i].pgid = child /\ child > 0

\* C9, as a step: the block of s sends exactly one killpg(child, s) when the
\* flag of s is pending and a child is tracked, and nothing otherwise; no
\* other step sends s.
C9_ForwardStep ==
    \A s \in Forwarded :
        IF pc = FwdPc[s] /\ pc' # pc /\ signals[s] = 1 /\ child # 0
        THEN sent' = <<Kill(child, s)>>
        ELSE \A i \in DOMAIN sent' : sent'[i].sig # s

\* C9: for SIGHUP, SIGUSR1 and SIGUSR2, a drain with the flag pending and a
\* child tracked sends exactly one kill of that signal to the process group
\* named by the tracked pid; without a tracked child nothing is sent.
C9_ForwardOncePerDrain == []C9_Addressed /\ [][C9_ForwardStep]_vars

\* SIGUSR2 was just forwarded to the tracked child's group.
C9_Witness ==
    /\ pc = "usr2_clr"
    /\ sent = <<Kill(child, "USR2")>>
    /\ child > 0

\* C10, as a step: the blocks of SIGHUP, SIGUSR1 and SIGUSR2 leave child,
\* stop, interval, deadline and uptime alone, stay in the loop and announce
\* no restart.
C10_ForwardFrame ==
    (pc \in {"hup", "hup_clr", "usr1", "usr1_clr", "usr2", "usr2_clr"}
        /\ pc' # pc) =>
        /\ UNCHANGED <<child, stop, interval, deadline, uptime>>
        /\ pc' \in {"hup_clr", "usr1", "usr1_clr", "usr2", "usr2_clr", "term"}
        /\ logged' = << >>

\* C10: draining SIGHUP, SIGUSR1 or SIGUSR2 leaves the supervision state
\* unchanged, does not leave the loop and schedules no restart.
C10_ForwardKeepsState == [][C10_ForwardFrame]_vars

\* SIGHUP was forwarded to a child after a restart had doubled the interval.
C10_Witness ==
    /\ pc = "hup_clr"
    /\ sent = <<Kill(child, "HUP")>>
    /\ interval > Restart

\* ---- parseInterval, on the argument of -c or -t ----

\* Longest option argument the model hands to parseInterval.
MaxText == 4

Digits == {"0", "1", "2"}
Letters == {"s", "m", "h", "d", "x"}
DigitValue == [c \in Digits |-> CASE c = "0" -> 0 [] c = "1" -> 1 [] c = "2" -> 2]

\* The texts of 1 to MaxText characters.
Texts == UNION {[1..n -> Digits \cup Letters] : n \in 1..MaxText}

\* strtoul(millis, NULL, 10): the value of the longest prefix of decimal
\* digits (0 when there is none); what follows is not looked at.
RECURSIVE strtoul(_, _)
strtoul(s, acc) ==
    IF s = << >> \/ Head(s) \notin Digits THEN acc
    ELSE strtoul(Tail(s), 10 * acc + DigitValue[Head(s)])

\* parseInterval(interval, millis).  It has no failure path.
parseInterval(s) ==
    LET ms == strtoul(s, 0)
    IN  [called |-> TRUE, failed |-> FALSE,
         tv_sec |-> ms \div 1000, tv_nsec |-> 1000000 * (ms % 1000)]

\* case 'c': parseInterval(&cooloff, optarg); (and case 't').
ParseOption ==
    /\ ~parsed.called
    /\ parsed' = parseInterval(millis)
    /\ UNCHANGED <<millis, loop, buffering>>

ParseStart ==
    /\ MainInit
    /\ BufferInit
    /\ millis \in Texts
    /\ parsed = [called |-> FALSE, failed |-> FALSE, tv_sec |-> 0, tv_nsec |-> 0]

ParseNext == ParseOption

ParseSpec == ParseStart /\ [][ParseNext]_vars

\* ---- claims about the line buffers ----

\* The concatenation of a sequence of records.
RECURSIVE Flat(_)
Flat(rs) == IF rs = << >> THEN << >> ELSE Head(rs) \o Flat(Tail(rs))

\* A byte sequence with its newlines removed.
WithoutNewlines(s) == SelectSeq(s, LAMBDA b : b # NL)

HasNewline(s) == \E i \in DOMAIN s : s[i] = NL

\* A stream of text: no NUL byte (a NUL also ends the C string that syslog
\* and strchr see, which drops the bytes that follow it).
IsText(s) == \A i \in DOMAIN s : s[i] # NUL

\* C11: with lbFill/lbFlush and a source of text, no record contains a
\* newline, and the records in emission order, followed by what the buffer
\* still holds, are the bytes read so far with the newlines removed (so every
\* record is a whole line of the source or a forced flush of a buffer without
\* newline, and no byte is emitted twice or dropped).
C11_RecordsAreSourceLines ==
    (impl = "lb" /\ IsText(consumed)) =>
        /\ \A i \in DOMAIN records : ~HasNewline(records[i])
        /\ Flat(records) \o WithoutNewlines(lb.buf) = WithoutNewlines(consumed)

\* C12: when main() has returned after the last lbFill and lbFlush, and the
\* reads have taken every byte of text the child wrote, every such byte has
\* been emitted: nothing is left in the buffer, also when the output ends
\* without a newline.
C12_ExitEmitsEverything ==
    (lbPc = "exited" /\ IsText(consumed) /\ pipe = << >>) =>
        /\ lb.buf = << >>
        /\ Flat(records) = WithoutNewlines(consumed)

\* ---- claims about parseInterval ----

\* The number a text of digits only denotes.
NumberOf(s) == strtoul(s, 0)

AllDigits(s) == s # << >> /\ \A i \in DOMAIN s : s[i] \in Digits

\* The parsed interval in milliseconds.
Millis(iv) == 1000 * iv.tv_sec + iv.tv_nsec \div 1000000

\* Milliseconds per unit of each suffix.
UnitMillis == [c \in {"s", "m", "h", "d"} |->
    CASE c = "s" -> 1000 [] c = "m" -> 60000 [] c = "h" -> 3600000
      [] c = "d" -> 86400000]

\* C13: n alone parses to n milliseconds; n followed by s, m, h or d parses
\* to n seconds, minutes, hours or days; n followed by another byte is a
\* fatal error and not an interval.
C13_ParseInterval ==
    parsed.called =>
        LET n == Len(millis)
            body == SubSeq(millis, 1, n - 1)
            last == millis[n]
        IN  /\ AllDigits(millis) =>
                  ~parsed.failed /\ Millis(parsed) = NumberOf(millis)
            /\ (AllDigits(body) /\ last \in DOMAIN UnitMillis) =>
                  /\ ~parsed.failed
                  /\ Millis(parsed) = NumberOf(body) * UnitMillis[last]
            /\ (AllDigits(body) /\ last \in Letters \ DOMAIN UnitMillis) =>
                  parsed.failed

\* ---- claims about the loop, continued ----

\* C14, as a step: a fork other than the first happens at an instant that
\* is not before the deadline the last reap set.
C14_SpawnStep ==
    (pc = "spawn" /\ child = 0 /\ child' > 0 /\ nextPid > FirstPid) =>
        clock >= deadline

\* C14: no spawn happens before its deadline, also when ppoll returned early
\* because a signal interrupted it or a pipe became readable.
C14_NoSpawnBeforeDeadline == [][C14_SpawnStep]_vars

\* C15, as a step: a pending flag goes from 0 to 1 only while main() is
\* inside ppoll.
C15_HandlerStep ==
    \A s \in Handled :
        (signals[s] = 0 /\ signals'[s] = 1) => pc = "poll"

\* C15: the handled signals are blocked everywhere except inside the wait,
\* so no handler runs between the drain of the flags and the entry into
\* ppoll, or in the middle of a change of the supervision state.
C15_BlockedOutsideWait == [][C15_HandlerStep]_vars

\* C16: a delivery of SIGHUP, SIGUSR1, SIGUSR2, SIGINT or SIGTERM made while
\* a child is tracked, and not yet followed by a killpg of that signal,
\* still has its flag pending (so the next drain forwards it): the flag is
\* not cleared over a delivery that landed after the killpg.  A delivery
\* that sets a flag from 0 to 1 precedes the test that leads to the killpg;
\* owed holds the other ones.
C16_NoDeliveryLost == \A s \in owed : signals[s] = 1

\* C17, as a step: the SIGCHLD block, when wait() failed or returned a pid
\* that is not the tracked one, leaves child, stop, interval, deadline and
\* uptime alone, forks nothing, writes only its own notice (no "restarting
\* in") and goes back to the top of the loop, past ppoll and the spawn.
C17_StrayStep ==
    (pc = "reap" /\ pc' # pc /\ (pid < 0 \/ pid # child)) =>
        /\ UNCHANGED <<child, stop, interval, deadline, uptime>>
        /\ UNCHANGED <<nextPid, procs>>
        /\ \A i \in DOMAIN logged' : logged'[i].msg \in {"wait", "unknown child"}
        /\ pc' = "top"

SignalNotices(recs, s) ==
    {i \in DOMAIN recs : recs[i].msg = "child got signal" /\ recs[i].sig = s}

\* C18, as a step: the reap of the tracked child that a signal s terminated
\* writes exactly one notice naming s, unless s was forwarded to that child
\* by the SIGINT/SIGTERM block, in which case it writes none.
C18_NoticeStep ==
    (pc = "reap" /\ pc' # pc /\ pid = child /\ ~status.exited) =>
        Cardinality(SignalNotices(logged', status.sig)) =
            IF <<status.sig, pid>> \in stopSent THEN 0 ELSE 1

\* C18: termination by signal is reported once, and suppressed precisely
\* when the signal is the one forwarded during shutdown: SIGINT after a
\* forwarded SIGINT is not reported, SIGTERM without a shutdown is.
C18_SignalNotices == [][C18_NoticeStep]_vars

\* ---- claims about the line buffers, continued ----

\* C19, as a state predicate: the length stays below the capacity, the
\* assertion of the flush has not failed, and a flush of text leaves no
\* newline in the buffer.
C19_State ==
    /\ lb.len < BufSize
    /\ lbPc # "aborted"
    /\ (lbPc \in {"fill", "exited"} /\ IsText(consumed)) => ~HasNewline(lb.buf)

\* C19, as a step: a fill whose read took no byte (would-block, another
\* error, zero bytes) leaves the length and the content unchanged.
C19_FillStep ==
    (lbPc \in {"fill", "last_fill"} /\ lbPc' # lbPc /\ consumed' = consumed) =>
        lb' = lb

\* C19: for lbFill/lbFlush and for lineFill/lineFlush, after any fills and
\* flushes the length is < capacity, the assertion never fails, a failed
\* read leaves the length unchanged and a flush leaves only the bytes after
\* the last newline.
C19_BufferInvariants == []C19_State /\ [][C19_FillStep]_vars

\* The same statement for lbFill/lbFlush alone.
LbFillFlushInvariants ==
    [](impl = "lb" => C19_State) /\ [][impl = "lb" => C19_FillStep]_vars

\* Everything the child has written: what was read and what the pipe holds.
Written == consumed \o pipe

\* The child's output starts, in an empty buffer, with a line of exactly
\* BufSize bytes that are neither newline nor NUL, ended by a newline.
FullLineFirst ==
    /\ Len(Written) >= BufSize + 1
    /\ \A i \in 1..BufSize : Written[i] \notin {NL, NUL}
    /\ Written[BufSize + 1] = NL

\* C20: a line of exactly sizeof(buf) bytes without newline, arriving in an
\* empty buffer, is emitted as one record that holds all its bytes.
C20_FullLineOneRecord ==
    (impl = "lb" /\ FullLineFirst /\ records # << >>) =>
        records[1] = SubSeq(Written, 1, BufSize)

\* ---- C21 ----

\* The process group of pid exists: the child has run setpgid(0, 0) and has
\* not been reaped.
GroupExists(p) ==
    p \in DOMAIN procs /\ procs[p].st \in {"grouped", "running", "zombie"}

\* C21: whenever the supervisor forwards a signal to the tracked child's
\* process group (a killpg call of the step just taken), that group already
\* exists; no forward is issued between fork returning in the supervisor and
\* the child's setpgid(0, 0).
C21_ForwardFindsGroup ==
    \A i \in DOMAIN sent : sent[i].pgid > 0 => GroupExists(sent[i].pgid)

\* The supervisor waits without timeout with stop set, no signal pending,
\* on a command that runs and never received the shutdown signal.
StopLostInSpawn ==
    /\ pc = "poll" /\ stop /\ child > 0
    /\ \A s \in Handled : signals[s] = 0
    /\ procs[child].st = "running" /\ procs[child].got = {}

====
